---------------------------- MODULE Spec2Model ----------------------------
(***************************************************************************)
(* Model of the prolation-canon optimizer (src/optimizer/optimal_canon.py *)
(* and src/optimizer/canon.py).                                            *)
(*                                                                         *)
(* Representation.                                                         *)
(*   - A Fraction duration or offset is an integer number of ticks,       *)
(*     Whole ticks to the whole note, so Fraction arithmetic is exact.     *)
(*   - A float score is kept as an exact fraction [num, den] (den > 0) of  *)
(*     half points: every rubric weight is a multiple of 0.5, so a weight  *)
(*     w is the integer 2w.                                                *)
(*   - A pitch is [pc, oct]: pitch class number 0..11 and octave number    *)
(*     (c' is octave 4, c is octave 3, c, is octave 2); pitch classes are  *)
(*     spelled as abjad.NamedPitchClass(number) spells them.               *)
(*   - A leaf is [kind, pc, oct, dur] with kind "Note" or "Rest".          *)
(***************************************************************************)
EXTENDS Integers, Sequences, FiniteSets, TLC

\* ------------------------------------------------------------------------
\* Units and bounds
\* ------------------------------------------------------------------------

\* Ticks per whole note: a quarter of an eighth-note beat is one tick.
Whole == 8 * 4

\* max_entry_delay_measures ranges over 0..MaxDelayMeasures.
MaxDelayMeasures == 1

\* The largest amount (in half points) by which a rubric weight is raised.
MaxRaise == 2

\* canon.py: the default voice_count; the generator is run with 1 up to this
\* many voices.
default_voice_count == 3

Max(a, b) == IF a >= b THEN a ELSE b

Min(a, b) == IF a <= b THEN a ELSE b

Abs(a) == IF a >= 0 THEN a ELSE -a

RECURSIVE Pow(_, _)
Pow(b, e) == IF e = 0 THEN 1 ELSE b * Pow(b, e - 1)

\* Python's a % b: the result has the sign of b (b # 0).
PyMod(a, b) == IF b > 0 THEN a % b ELSE -((-a) % (-b))

\* Python's int(a / b) for Fractions: the quotient truncated toward zero
\* (b # 0).
PyInt(a, b) ==
    IF (a >= 0) = (b > 0) THEN Abs(a) \div Abs(b) ELSE -(Abs(a) \div Abs(b))

RECURSIVE SumDur(_)
SumDur(leaves) ==
    IF leaves = <<>> THEN 0 ELSE Head(leaves).dur + SumDur(Tail(leaves))

RECURSIVE SumSeq(_)
SumSeq(q) == IF q = <<>> THEN 0 ELSE Head(q) + SumSeq(Tail(q))

\* ------------------------------------------------------------------------
\* Leaves and pitches
\* ------------------------------------------------------------------------

Note(pc, oct, dur) == [kind |-> "Note", pc |-> pc, oct |-> oct, dur |-> dur]

Rest(dur) == [kind |-> "Rest", pc |-> 0, oct |-> 0, dur |-> dur]

Pitch(pc, oct) == [pc |-> pc, oct |-> oct]

\* NamedPitch.number(): semitones from middle C.
PitchNumber(p) == 12 * (p.oct - 4) + p.pc

\* The letter (c = 0 .. b = 6) of the default spelling of a pitch class
\* number: c cs d ef e f fs g af a bf b.
LetterOf(pc) == <<0, 0, 1, 2, 2, 3, 3, 4, 5, 5, 6, 6>>[pc + 1]

\* Diatonic staff position of a pitch.
DiatonicNumber(p) == 7 * p.oct + LetterOf(p.pc)

\* str(pitch).count("'") and str(pitch).count(","): the octave marks of the
\* LilyPond name.
Apostrophes(p) == IF p.oct > 3 THEN p.oct - 3 ELSE 0

Commas(p) == IF p.oct < 3 THEN 3 - p.oct ELSE 0

\* abjad.NamedPitch(name) for a name made of a pitch class and octave marks.
NamedPitch(pc, apostrophes, commas) ==
    IF apostrophes > 0 THEN Pitch(pc, 3 + apostrophes)
    ELSE IF commas > 0 THEN Pitch(pc, 3 - commas)
    ELSE Pitch(pc, 3)

\* ------------------------------------------------------------------------
\* Scale and diatonic transposition (optimal_canon.py)
\* ------------------------------------------------------------------------

scale_patterns ==
    [major |-> <<0, 2, 4, 5, 7, 9, 11>>, minor |-> <<0, 2, 3, 5, 7, 8, 10>>]

\* A variant that does not reduce the pitch class numbers modulo 12.
get_scale_pitches_without_wrap(key) ==
    LET mode0 == IF key.mode = "" THEN "major" ELSE key.mode
        mode == IF mode0 \notin DOMAIN scale_patterns THEN "major" ELSE mode0
    IN [k \in 1..7 |-> key.tonic + scale_patterns[mode][k]]

\* key is [tonic, mode]: the tonic's pitch class number and the mode word
\* ("" when the key string has no second word).
get_scale_pitches(key) ==
    LET mode0 == IF key.mode = "" THEN "major" ELSE key.mode
        mode == IF mode0 \notin DOMAIN scale_patterns THEN "major" ELSE mode0
    IN [k \in 1..7 |-> (key.tonic + scale_patterns[mode][k]) % 12]

\* The key of min(..., key=lambda pc: ...): the smallest of the three
\* distances.
\* A variant that measures the distance without going round the octave.
ClosestKey_without_wrap(pcnum, current_number) ==
    Abs(pcnum - current_number)

ClosestKey(pcnum, current_number) ==
    Min(Abs(pcnum - current_number),
        Min(Abs(pcnum - current_number + 12), Abs(pcnum - current_number - 12)))

\* A variant that counts the index from 1.
IndexIn_from_one(scale, pcnum) ==
    CHOOSE k \in 1..Len(scale) :
        /\ scale[k] = pcnum
        /\ \A j \in 1..(k - 1) : scale[j] # pcnum

\* scale_names.index(name): the first index (0-based) holding the name.
IndexIn(scale, pcnum) ==
    (CHOOSE k \in 1..Len(scale) :
        /\ scale[k] = pcnum
        /\ \A j \in 1..(k - 1) : scale[j] # pcnum) - 1

\* A variant of min() that returns the last element with the smallest key.
ClosestPc_last_of_ties(scale, current_number) ==
    scale[CHOOSE k \in 1..Len(scale) :
        /\ \A j \in 1..Len(scale) :
              ClosestKey(scale[k], current_number)
                  <= ClosestKey(scale[j], current_number)
        /\ \A j \in (k + 1)..Len(scale) :
              ClosestKey(scale[j], current_number)
                  > ClosestKey(scale[k], current_number)]

\* min() returns the first element with the smallest key.
ClosestPc(scale, current_number) ==
    scale[CHOOSE k \in 1..Len(scale) :
        /\ \A j \in 1..Len(scale) :
              ClosestKey(scale[k], current_number)
                  <= ClosestKey(scale[j], current_number)
        /\ \A j \in 1..(k - 1) :
              ClosestKey(scale[j], current_number)
                  > ClosestKey(scale[k], current_number)]

current_scale_index(scale, p) ==
    IF \E k \in 1..Len(scale) : scale[k] = p.pc
    THEN IndexIn(scale, p.pc)
    ELSE IndexIn(scale, ClosestPc(scale, p.pc))

\* A variant that lowers the register on every wrap, upward ones included.
octave_adjustment_any_direction(scale_degrees, new_scale_index, cur_scale_index) ==
    IF new_scale_index > cur_scale_index THEN -1 ELSE 0

octave_adjustment(scale_degrees, new_scale_index, cur_scale_index) ==
    IF scale_degrees > 0 /\ new_scale_index > cur_scale_index THEN -1 ELSE 0

transpose_pitch_by_scale_degrees(scale, p, scale_degrees) ==
    LET idx == current_scale_index(scale, p)
        new_scale_index == (idx - scale_degrees) % Len(scale)
        new_pc == scale[new_scale_index + 1]
        adj == octave_adjustment(scale_degrees, new_scale_index, idx)
        apostrophes == Apostrophes(p)
        commas == Commas(p)
        new_octave_apostrophes ==
            IF apostrophes > 0 THEN Max(0, apostrophes + adj)
            ELSE IF commas > 0 THEN 0
            ELSE IF adj > 0 THEN adj ELSE 0
        new_commas ==
            IF apostrophes > 0 THEN 0
            ELSE IF commas > 0 THEN Max(0, commas - adj)
            ELSE IF adj < 0 THEN -adj ELSE 0
    IN NamedPitch(new_pc, new_octave_apostrophes, new_commas)

\* ------------------------------------------------------------------------
\* Rubric and Judge (optimal_canon.py)
\* ------------------------------------------------------------------------

\* Rubric(): the default weights, in half points.
DefaultRubric ==
    [strong_beat_consonance |-> 10,
     medium_beat_consonance |-> 4,
     weak_beat_consonance |-> 2,
     strong_beat_unison_penalty |-> -4,
     medium_beat_unison_penalty |-> -2,
     weak_beat_unison_penalty |-> -1,
     strong_beat_dissonance_penalty |-> -2,
     medium_beat_dissonance_penalty |-> -1,
     weak_beat_dissonance_penalty |-> 0,
     overall_consonance_bonus |-> 20]

\* The custom rubric of the module's example run.
CustomRubric ==
    [DefaultRubric EXCEPT !.strong_beat_unison_penalty = -6,
                          !.medium_beat_unison_penalty = -3,
                          !.strong_beat_dissonance_penalty = -4]

BeatTicks(ts) == Whole \div ts[2]

MeasureTicks(ts) == ts[1] * BeatTicks(ts)

\* A variant that counts the beats from the start of the score, not of the
\* measure.
get_beat_strength_from_score_start(offset, ts, template) ==
    template[(PyInt(offset, BeatTicks(ts)) % Len(template)) + 1]

\* Judge.get_beat_strength and CanonGenerator.get_beat_strength.
get_beat_strength(offset, ts, template) ==
    LET beats_per_measure == ts[1]
        beat_duration == BeatTicks(ts)
        position_in_measure ==
            PyMod(offset, beats_per_measure * beat_duration)
        beat_number == PyInt(position_in_measure, beat_duration)
        template_index == beat_number % Len(template)
    IN template[template_index + 1]

\* "offset % (beats_per_measure * beat_duration)" raises ZeroDivisionError
\* for a measure of no duration.
get_beat_strength_raises(ts) == ts[1] * BeatTicks(ts) = 0

IntervalName(q, n) == [q |-> q, n |-> n]

\* Semitones of the major or perfect interval on each simple staff distance.
BaseSemitones == <<0, 2, 4, 5, 7, 9, 11>>

\* abjad.NamedInterval.from_pitch_carriers(pitch1, pitch2).name(): quality
\* and number of the interval between the two spelled pitches, the number
\* growing past 8 for compound intervals.  The direction sign is left out,
\* as the tables the name is looked up in assume.
NamedIntervalName(p1, p2) ==
    LET lo == IF PitchNumber(p1) <= PitchNumber(p2) THEN p1 ELSE p2
        hi == IF PitchNumber(p1) <= PitchNumber(p2) THEN p2 ELSE p1
        steps == DiatonicNumber(hi) - DiatonicNumber(lo)
        semis == PitchNumber(hi) - PitchNumber(lo)
        simple == steps % 7
        diff == semis - 12 * (steps \div 7) - BaseSemitones[simple + 1]
        perfect == simple \in {0, 3, 4}
        q == IF perfect
             THEN CASE diff = 0 -> "P"
                    [] diff = 1 -> "A"
                    [] diff = -1 -> "d"
                    [] OTHER -> "x"
             ELSE CASE diff = 0 -> "M"
                    [] diff = -1 -> "m"
                    [] diff = 1 -> "A"
                    [] diff = -2 -> "d"
                    [] OTHER -> "x"
    IN IntervalName(q, steps + 1)

\* The call raises no exception for two named pitches, so the except branch
\* (the semitone table) is not taken.
calculate_interval(p1, p2) == NamedIntervalName(p1, p2)

consonant_intervals ==
    {IntervalName("P", 1), IntervalName("P", 8), IntervalName("P", 5),
     IntervalName("P", 4), IntervalName("M", 3), IntervalName("m", 3),
     IntervalName("M", 6), IntervalName("m", 6)}

consonant_interval_classes == {0, 7, 5, 4, 3, 8, 9}

\* The names is_consonant maps to semitones; TT stands for itself.
semitone_map ==
    [name \in {IntervalName("P", 1), IntervalName("m", 2), IntervalName("M", 2),
               IntervalName("m", 3), IntervalName("M", 3), IntervalName("P", 4),
               IntervalName("TT", 0), IntervalName("P", 5), IntervalName("m", 6),
               IntervalName("M", 6), IntervalName("m", 7), IntervalName("M", 7)}
        |-> CASE name = IntervalName("P", 1) -> 0
              [] name = IntervalName("m", 2) -> 1
              [] name = IntervalName("M", 2) -> 2
              [] name = IntervalName("m", 3) -> 3
              [] name = IntervalName("M", 3) -> 4
              [] name = IntervalName("P", 4) -> 5
              [] name = IntervalName("TT", 0) -> 6
              [] name = IntervalName("P", 5) -> 7
              [] name = IntervalName("m", 6) -> 8
              [] name = IntervalName("M", 6) -> 9
              [] name = IntervalName("m", 7) -> 10
              [] OTHER -> 11]

is_consonant(interval_name) ==
    IF interval_name \in consonant_intervals THEN TRUE
    ELSE IF interval_name \in DOMAIN semitone_map
         THEN semitone_map[interval_name] \in consonant_interval_classes
         ELSE FALSE

is_unison(interval_name) ==
    interval_name \in {IntervalName("P", 1), IntervalName("P", 8)}

\* A score is a sequence of staves, a staff a sequence of leaves.

RECURSIVE StartOffsets(_, _)
StartOffsets(staff, at) ==
    IF staff = <<>> THEN {}
    ELSE {at} \cup StartOffsets(Tail(staff), at + Head(staff).dur)

\* The offsets of abjad.iterate_vertical_moments(score): every offset at
\* which a leaf of some staff starts.
MomentOffsets(score) ==
    UNION {StartOffsets(score[v], 0) : v \in 1..Len(score)}

RECURSIVE LeafAt(_, _, _)
LeafAt(staff, at, offset) ==
    IF staff = <<>> THEN <<>>
    ELSE IF at <= offset /\ offset < at + Head(staff).dur THEN <<Head(staff)>>
    ELSE LeafAt(Tail(staff), at + Head(staff).dur, offset)

\* moment.leaves(): the leaves sounding at the offset, in staff order.
RECURSIVE MomentLeaves(_, _)
MomentLeaves(score, offset) ==
    IF score = <<>> THEN <<>>
    ELSE LeafAt(Head(score), 0, offset) \o MomentLeaves(Tail(score), offset)

LeafPitch(leaf) == Pitch(leaf.pc, leaf.oct)

\* The pairs (leaf1, leaf2) of the two nested loops, in loop order.
RECURSIVE LeafPairs(_, _, _)
LeafPairs(n, i, j) ==
    IF i >= n THEN <<>>
    ELSE IF j > n THEN LeafPairs(n, i + 1, i + 2)
    ELSE <<(<<i, j>>)>> \o LeafPairs(n, i, j + 1)

\* moment_intervals: the interval name of every pair of two Notes.
moment_intervals(leaves) ==
    LET BothNotes(pr) ==
            leaves[pr[1]].kind = "Note" /\ leaves[pr[2]].kind = "Note"
        pairs == SelectSeq(LeafPairs(Len(leaves), 1, 2), BothNotes)
    IN [k \in 1..Len(pairs) |->
            calculate_interval(LeafPitch(leaves[pairs[k][1]]),
                               LeafPitch(leaves[pairs[k][2]]))]

\* The unison / consonance / dissonance counters of one moment: a pair is
\* counted unison first, else consonant, else dissonant.
unisons_of(names) == Len(SelectSeq(names, is_unison))

consonances_of(names) ==
    LET Cons(nm) == ~is_unison(nm) /\ is_consonant(nm)
    IN Len(SelectSeq(names, Cons))

dissonances_of(names) ==
    LET Diss(nm) == ~is_unison(nm) /\ ~is_consonant(nm)
    IN Len(SelectSeq(names, Diss))

\* The dictionary appended to interval_analysis for one moment.
analysis_entry(offset, beat_strength, names) ==
    [offset |-> offset,
     beat_strength |-> beat_strength,
     intervals |-> names,
     consonances |-> consonances_of(names),
     dissonances |-> dissonances_of(names),
     unisons |-> unisons_of(names),
     pairs |-> Len(names)]

\* A variant of the weight selection without the medium branch: a medium
\* beat falls through to the weak weights.
scoring_weights_without_medium(rubric, beat_strength) ==
    IF beat_strength = "S"
    THEN [cons |-> rubric.strong_beat_consonance,
          diss |-> rubric.strong_beat_dissonance_penalty,
          unis |-> rubric.strong_beat_unison_penalty]
    ELSE [cons |-> rubric.weak_beat_consonance,
          diss |-> rubric.weak_beat_dissonance_penalty,
          unis |-> rubric.weak_beat_unison_penalty]

\* (cons_weight, diss_weight, unis_weight) for a beat strength.
scoring_weights(rubric, beat_strength) ==
    IF beat_strength = "S"
    THEN [cons |-> rubric.strong_beat_consonance,
          diss |-> rubric.strong_beat_dissonance_penalty,
          unis |-> rubric.strong_beat_unison_penalty]
    ELSE IF beat_strength = "m"
    THEN [cons |-> rubric.medium_beat_consonance,
          diss |-> rubric.medium_beat_dissonance_penalty,
          unis |-> rubric.medium_beat_unison_penalty]
    ELSE [cons |-> rubric.weak_beat_consonance,
          diss |-> rubric.weak_beat_dissonance_penalty,
          unis |-> rubric.weak_beat_unison_penalty]

\* A variant of the moment score that subtracts the consonance term.
moment_score_consonance_subtracted(consonances, dissonances, unisons, w) ==
    dissonances * w.diss + unisons * w.unis - consonances * w.cons

moment_score(consonances, dissonances, unisons, w) ==
    consonances * w.cons + dissonances * w.diss + unisons * w.unis

\* The locals of evaluate_score before the loop.
JudgeLocals0 ==
    [total_score |-> 0,
     moment_count |-> 0,
     strong_beat_consonances |-> 0,
     strong_beat_moments |-> 0,
     interval_analysis |-> <<>>]

\* One pass of the loop over the vertical moments.
judge_moment(acc, leaves, offset, rubric, ts, template) ==
    IF Len(leaves) < 2 THEN acc
    ELSE
      LET beat_strength == get_beat_strength(offset, ts, template)
          e == analysis_entry(offset, beat_strength, moment_intervals(leaves))
          w == scoring_weights(rubric, beat_strength)
          strong == e.pairs > 0 /\ beat_strength = "S"
      IN [total_score |->
              IF e.pairs > 0
              THEN acc.total_score
                     + moment_score(e.consonances, e.dissonances, e.unisons, w)
              ELSE acc.total_score,
          moment_count |-> acc.moment_count + 1,
          strong_beat_consonances |->
              IF strong THEN acc.strong_beat_consonances + e.consonances
              ELSE acc.strong_beat_consonances,
          strong_beat_moments |->
              IF strong THEN acc.strong_beat_moments + e.pairs
              ELSE acc.strong_beat_moments,
          interval_analysis |-> Append(acc.interval_analysis, e)]

SetMin(S) == CHOOSE x \in S : \A y \in S : x <= y

RECURSIVE judge_loop(_, _, _, _, _, _)
judge_loop(acc, offsets, score, rubric, ts, template) ==
    IF offsets = {} THEN acc
    ELSE LET offset == SetMin(offsets)
         IN judge_loop(
                judge_moment(acc, MomentLeaves(score, offset), offset,
                             rubric, ts, template),
                offsets \ {offset}, score, rubric, ts, template)

Frac(num, den) == [num |-> num, den |-> den]

FracGE(a, b) == a.num * b.den >= b.num * a.den

FracGT(a, b) == a.num * b.den > b.num * a.den

FracEq(a, b) == a.num * b.den = b.num * a.den

\* total_score after "Add overall consonance bonus".
add_bonus(total_score, strong_beat_consonances, strong_beat_moments, bonus) ==
    IF strong_beat_moments > 0
    THEN Frac(total_score * strong_beat_moments
                 + strong_beat_consonances * bonus,
              strong_beat_moments)
    ELSE Frac(total_score, 1)

\* A variant of the final score that divides the moment total first and
\* adds the bonus to the quotient.
final_score_bonus_after_division(acc, rubric) ==
    Frac(acc.total_score * Max(acc.strong_beat_moments, 1)
           + acc.strong_beat_consonances * rubric.overall_consonance_bonus
               * Max(acc.moment_count, 1),
         Max(acc.strong_beat_moments, 1) * Max(acc.moment_count, 1))

\* final_score = total_score / max(moment_count, 1), total_score being the
\* accumulator the bonus was added to.
final_score_of(acc, rubric) ==
    LET total == add_bonus(acc.total_score, acc.strong_beat_consonances,
                           acc.strong_beat_moments,
                           rubric.overall_consonance_bonus)
    IN Frac(total.num, total.den * Max(acc.moment_count, 1))

\* Every local of evaluate_score when its body ends; moment_total is
\* total_score as the loop left it, total_score its value after the bonus.
judge_locals(score, rubric, ts, template) ==
    LET acc == judge_loop(JudgeLocals0, MomentOffsets(score), score,
                          rubric, ts, template)
    IN [moment_total |-> acc.total_score,
        total_score |-> add_bonus(acc.total_score,
                                  acc.strong_beat_consonances,
                                  acc.strong_beat_moments,
                                  rubric.overall_consonance_bonus),
        moment_count |-> acc.moment_count,
        strong_beat_consonances |-> acc.strong_beat_consonances,
        strong_beat_moments |-> acc.strong_beat_moments,
        interval_analysis |-> acc.interval_analysis,
        final_score |-> final_score_of(acc, rubric)]

\* What a call returns: a float, or None.
Float(f) == [kind |-> "float", num |-> f.num, den |-> f.den]

None == [kind |-> "None", num |-> 0, den |-> 1]

\* Judge.evaluate_score: the body ends after final_score is assigned, with no
\* return statement, so the call returns None.
evaluate_score(score, rubric, ts, template) == None

\* ------------------------------------------------------------------------
\* Voice builder (optimal_canon.py)
\* ------------------------------------------------------------------------

RECURSIVE SelectNotes(_)
SelectNotes(leaves) ==
    IF leaves = <<>> THEN <<>>
    ELSE IF Head(leaves).kind = "Note"
         THEN <<Head(leaves)>> \o SelectNotes(Tail(leaves))
         ELSE SelectNotes(Tail(leaves))

\* extract_melody_notes: the leaves of the melody staff that are Notes.
extract_melody_notes(staff) == SelectNotes(staff)

\* copy_melody_notes: fresh Notes with the same pitch and duration.
copy_melody_notes(staff) ==
    LET notes == extract_melody_notes(staff)
    IN [k \in 1..Len(notes) |-> Note(notes[k].pc, notes[k].oct, notes[k].dur)]

\* The rest appended for a remaining delay: r1, r2, r4, else r8.
rest_chunk(remaining_delay) ==
    IF remaining_delay >= Whole THEN Whole
    ELSE IF remaining_delay >= Whole \div 2 THEN Whole \div 2
    ELSE IF remaining_delay >= Whole \div 4 THEN Whole \div 4
    ELSE Whole \div 8

\* "Add rests for entry delay": the rests and the last value of
\* remaining_delay.
RECURSIVE rest_loop(_, _)
rest_loop(remaining_delay, components) ==
    IF remaining_delay > 0
    THEN rest_loop(remaining_delay - rest_chunk(remaining_delay),
                   Append(components, Rest(rest_chunk(remaining_delay))))
    ELSE [components |-> components, remaining_delay |-> remaining_delay]

entry_rests(entry_delay) ==
    IF entry_delay > 0 THEN rest_loop(entry_delay, <<>>)
    ELSE [components |-> <<>>, remaining_delay |-> 0]

\* The scale degrees voice voice_number is transposed down by.
\* A variant in which voice 3 is transposed no deeper than voice 2.
scale_degrees_down_single_step(voice_number, canon_interval) ==
    IF voice_number = 2 \/ voice_number = 3 THEN canon_interval - 1
    ELSE 0

scale_degrees_down(voice_number, canon_interval) ==
    IF voice_number = 2 THEN canon_interval - 1
    ELSE IF voice_number = 3 THEN 2 * (canon_interval - 1)
    ELSE 0

voice_pitch(scale, original_pitch, voice_number, canon_interval) ==
    IF voice_number = 2 \/ voice_number = 3
    THEN transpose_pitch_by_scale_degrees(
             scale, original_pitch,
             scale_degrees_down(voice_number, canon_interval))
    ELSE original_pitch

\* A variant whose multiplier grows from prolation - 1.
voice_prolation_multiplier_from_zero(prolation, voice_number) ==
    Pow(prolation - 1, voice_number - 1)

voice_prolation_multiplier(prolation, voice_number) ==
    Pow(prolation, voice_number - 1)

\* A variant that always measures the span from the voice's own delay.
total_duration_needed_from_own_delay(melody_duration, entry_delay, max_delay_used, has_max, prolation, voice_number) ==
    entry_delay + melody_duration * Pow(prolation, voice_number - 1)

total_duration_needed(melody_duration, entry_delay, max_delay_used, has_max, prolation, voice_number) ==
    IF has_max
    THEN max_delay_used
           + melody_duration * voice_prolation_multiplier(prolation, voice_number)
    ELSE entry_delay
           + melody_duration * voice_prolation_multiplier(prolation, voice_number)

\* One pass of "for note in melody_notes", from note k on.
RECURSIVE statement_pass(_, _, _, _, _, _, _, _, _)
statement_pass(notes, k, out, current_duration, remaining_duration, scale, voice_number, canon_interval, mult) ==
    IF k > Len(notes) \/ current_duration >= remaining_duration
    THEN [notes |-> out, current_duration |-> current_duration]
    ELSE LET new_pitch == voice_pitch(scale, LeafPitch(notes[k]),
                                      voice_number, canon_interval)
             prolated_duration == notes[k].dur * mult
         IN statement_pass(notes, k + 1,
                Append(out, Note(new_pitch.pc, new_pitch.oct, prolated_duration)),
                current_duration + prolated_duration, remaining_duration,
                scale, voice_number, canon_interval, mult)

\* "while current_duration < remaining_duration": the repetitions.
RECURSIVE repetition_loop(_, _, _, _, _, _, _, _)
repetition_loop(notes, out, current_duration, remaining_duration, scale, voice_number, canon_interval, mult) ==
    IF current_duration < remaining_duration
    THEN LET pass == statement_pass(notes, 1, out, current_duration,
                                    remaining_duration, scale, voice_number,
                                    canon_interval, mult)
         IN repetition_loop(notes, pass.notes, pass.current_duration,
                            remaining_duration, scale, voice_number,
                            canon_interval, mult)
    ELSE out

\* The leaf cut at every barline it crosses (abjad.Meter.rewrite_meter
\* "splits long notes at barlines"); the pieces keep kind and pitch.
RECURSIVE split_leaf(_, _, _)
split_leaf(leaf, at, measure) ==
    LET measure_end == ((at \div measure) + 1) * measure
    IN IF at + leaf.dur > measure_end
       THEN <<[leaf EXCEPT !.dur = measure_end - at]>>
              \o split_leaf([leaf EXCEPT !.dur = at + leaf.dur - measure_end],
                            measure_end, measure)
       ELSE <<leaf>>

RECURSIVE split_leaves(_, _, _)
split_leaves(leaves, at, measure) ==
    IF leaves = <<>> THEN <<>>
    ELSE split_leaf(Head(leaves), at, measure)
           \o split_leaves(Tail(leaves), at + Head(leaves).dur, measure)

apply_meter_boundaries(components, ts) ==
    split_leaves(components, 0, MeasureTicks(ts))

\* Whether "while current_duration < remaining_duration" ends: a pass over
\* melody_notes that adds nothing to current_duration leaves the condition
\* as it was.
repetition_loop_terminates(notes, remaining_duration, mult) ==
    remaining_duration <= 0 \/ SumDur(notes) * mult > 0

\* create_canon_voice.  The result keeps, beside the staff returned, the
\* events the two loops appended (rests, then notes) and the locals the
\* properties speak of.
create_canon_voice(melody_notes, entry_delay, voice_number, max_delay_used, canon_interval, prolation, scale, ts) ==
    LET melody_duration == SumDur(melody_notes)
        needed == total_duration_needed(melody_duration, entry_delay,
                                        max_delay_used, TRUE, prolation,
                                        voice_number)
        prefix == entry_rests(entry_delay)
        remaining_duration == needed - entry_delay
        mult == voice_prolation_multiplier(prolation, voice_number)
        terminates ==
            repetition_loop_terminates(melody_notes, remaining_duration, mult)
        notes == IF terminates
                 THEN repetition_loop(melody_notes, <<>>, 0,
                                      remaining_duration, scale, voice_number,
                                      canon_interval, mult)
                 ELSE <<>>
    IN [voice_number |-> voice_number,
        terminates |-> terminates,
        entry_delay |-> entry_delay,
        total_duration_needed |-> needed,
        rests |-> prefix.components,
        remaining_delay |-> prefix.remaining_delay,
        remaining_duration |-> remaining_duration,
        notes |-> notes,
        staff |-> apply_meter_boundaries(prefix.components \o notes, ts)]

\* ------------------------------------------------------------------------
\* Delay grid and search (optimal_canon.py)
\* ------------------------------------------------------------------------

RECURSIVE delay_loop_exclusive(_, _, _, _)
\* A variant whose loop stops before max_delay_duration.
delay_loop_exclusive(current_delay, max_delay_duration, step, delays) ==
    IF current_delay < max_delay_duration
    THEN delay_loop_exclusive(current_delay + step, max_delay_duration, step,
                              Append(delays, current_delay))
    ELSE delays

RECURSIVE delay_loop(_, _, _, _)
delay_loop(current_delay, max_delay_duration, step, delays) ==
    IF current_delay <= max_delay_duration
    THEN delay_loop(current_delay + step, max_delay_duration, step,
                    Append(delays, current_delay))
    ELSE delays

\* The step "current_delay += ..." of the loop the resolution selects.
delay_step(entry_resolution, ts) ==
    CASE entry_resolution = "downbeat" -> ts[1] * BeatTicks(ts)
      [] entry_resolution = "half_beat" -> BeatTicks(ts) \div 2
      [] entry_resolution = "quarter_beat" -> BeatTicks(ts) \div 4
      [] OTHER -> BeatTicks(ts)

\* Whether "while current_delay <= max_delay_duration" ends: it starts at 0
\* and a step that is not positive never passes max_delay_duration >= 0.
delay_loop_terminates(entry_resolution, max_entry_delay, ts) ==
    \/ delay_step(entry_resolution, ts) > 0
    \/ max_entry_delay * ts[1] * BeatTicks(ts) < 0

generate_entry_delays(entry_resolution, max_entry_delay, ts, template) ==
    LET beat_duration == BeatTicks(ts)
        max_delay_duration == max_entry_delay * ts[1] * beat_duration
        Strong(d) == get_beat_strength(d, ts, template) = "S"
    IN CASE entry_resolution = "downbeat" ->
              delay_loop(0, max_delay_duration, ts[1] * beat_duration, <<>>)
         [] entry_resolution = "strong_beat" ->
              SelectSeq(delay_loop(0, max_delay_duration, beat_duration, <<>>),
                        Strong)
         [] entry_resolution = "beat" ->
              delay_loop(0, max_delay_duration, beat_duration, <<>>)
         [] entry_resolution = "half_beat" ->
              delay_loop(0, max_delay_duration, beat_duration \div 2, <<>>)
         [] entry_resolution = "quarter_beat" ->
              delay_loop(0, max_delay_duration, beat_duration \div 4, <<>>)
         [] OTHER ->
              delay_loop(0, max_delay_duration, beat_duration, <<>>)

\* The three voices built for one configuration (prolation, canon_interval,
\* delay2, delay3), as staves of one abjad.Score.
canon_voices(melody_staff, cfg, scale, ts) ==
    LET max_delay_in_config == Max(0, Max(cfg.delay2, cfg.delay3))
        Voice(n, d) == create_canon_voice(copy_melody_notes(melody_staff), d,
                                          n, max_delay_in_config,
                                          cfg.canon_interval, cfg.prolation,
                                          scale, ts)
    IN <<Voice(1, 0), Voice(2, cfg.delay2), Voice(3, cfg.delay3)>>

temp_score(voices) == [v \in 1..Len(voices) |-> voices[v].staff]

Configuration(prolation, canon_interval, delay2, delay3) ==
    [prolation |-> prolation, canon_interval |-> canon_interval,
     delay2 |-> delay2, delay3 |-> delay3]

\* The number of passes of the innermost loop of find_optimal_canon, and the
\* configuration of pass n (0-based): prolation outermost, then interval,
\* then itertools.product(possible_delays, repeat=2).
total_configurations(prolations, intervals, delays) ==
    Len(prolations) * Len(intervals) * Len(delays) * Len(delays)

configuration_at(n, prolations, intervals, delays) ==
    LET nd == Len(delays)
        ni == Len(intervals)
    IN Configuration(prolations[(n \div (nd * nd * ni)) + 1],
                     intervals[((n \div (nd * nd)) % ni) + 1],
                     delays[((n \div nd) % nd) + 1],
                     delays[(n % nd) + 1])

\* ------------------------------------------------------------------------
\* Fixed-timing chromatic generator (canon.py)
\* ------------------------------------------------------------------------

\* NamedPitch.transpose(n) for a number of semitones n.
transpose_chromatic(p, semitones) ==
    Pitch((p.pc + semitones) % 12, p.oct + ((p.pc + semitones) \div 12))

\* _create_prolated_durations: one duration list per voice_index.
create_prolated_durations(leaves, voice_count, prolation_factor) ==
    [v \in 1..voice_count |->
        [k \in 1..Len(leaves) |-> leaves[k].dur * Pow(prolation_factor, v - 1)]]

\* _create_transposed_pitches: one pitch list per voice_index; a rest (None)
\* stays a rest.
create_transposed_pitches(leaves, voice_count, transposition_interval) ==
    [v \in 1..voice_count |->
        [k \in 1..Len(leaves) |->
            IF leaves[k].kind = "Rest" THEN leaves[k]
            ELSE LET q == transpose_chromatic(LeafPitch(leaves[k]),
                                              transposition_interval * (v - 1))
                 IN [leaves[k] EXCEPT !.pc = q.pc, !.oct = q.oct]]]

\* _create_voice_notes: the leaves made of zip(pitches, durations).
create_voice_notes(pitches, durations) ==
    [k \in 1..Min(Len(pitches), Len(durations)) |->
        [pitches[k] EXCEPT !.dur = durations[k]]]

RECURSIVE Repeat(_, _)
Repeat(leaves, n) == IF n = 0 THEN <<>> ELSE leaves \o Repeat(leaves, n - 1)

\* _long_rest_to_measure_sized_rests.
RECURSIVE long_rest_to_measure_sized_rests(_, _)
long_rest_to_measure_sized_rests(remaining, measure_duration) ==
    IF remaining > 0
    THEN LET d == Min(measure_duration, remaining)
         IN <<Rest(d)>>
              \o long_rest_to_measure_sized_rests(remaining - d, measure_duration)
    ELSE <<>>

\* A variant whose rests last as long as the resting staff's own statement.
generate_pass_resting_own_statement(s, e, notes_per_voice, prolated_durations, voice_count, ts) ==
    IF s <= e
    THEN Repeat(notes_per_voice[s + 1], Pow(2, (voice_count - 1) - s))
    ELSE long_rest_to_measure_sized_rests(SumSeq(prolated_durations[s + 1]),
                                          MeasureTicks(ts))

\* What the pass for entering_voice_index e (0-based) appends to the staff
\* staff_index s (0-based).
generate_pass(s, e, notes_per_voice, prolated_durations, voice_count, ts) ==
    IF s <= e
    THEN Repeat(notes_per_voice[s + 1], Pow(2, (voice_count - 1) - s))
    ELSE long_rest_to_measure_sized_rests(SumSeq(prolated_durations[e + 1]),
                                          MeasureTicks(ts))

RECURSIVE generate_staff(_, _, _, _, _, _)
generate_staff(s, e, notes_per_voice, prolated_durations, voice_count, ts) ==
    IF e >= voice_count THEN <<>>
    ELSE generate_pass(s, e, notes_per_voice, prolated_durations, voice_count, ts)
           \o generate_staff(s, e + 1, notes_per_voice, prolated_durations,
                             voice_count, ts)

\* _split_and_fuse_staff: the staff split at the measure boundaries.
split_and_fuse_staff(staff, ts) == split_leaves(staff, 0, MeasureTicks(ts))

\* CanonGenerator.generate of canon.py; events are the staves before the
\* split at the measure boundaries.
generate(melody_staff, voice_count, transposition_interval, prolation_factor, ts) ==
    LET prolated_durations ==
            create_prolated_durations(melody_staff, voice_count, prolation_factor)
        transposed_pitches ==
            create_transposed_pitches(melody_staff, voice_count,
                                      transposition_interval)
        notes_per_voice ==
            [v \in 1..voice_count |->
                create_voice_notes(transposed_pitches[v], prolated_durations[v])]
        events ==
            [v \in 1..voice_count |->
                generate_staff(v - 1, 0, notes_per_voice, prolated_durations,
                               voice_count, ts)]
    IN [voice_count |-> voice_count,
        transposition_interval |-> transposition_interval,
        prolation_factor |-> prolation_factor,
        prolated_durations |-> prolated_durations,
        transposed_pitches |-> transposed_pitches,
        notes_per_voice |-> notes_per_voice,
        events |-> events,
        staves |-> [v \in 1..voice_count |-> split_and_fuse_staff(events[v], ts)]]

\* ------------------------------------------------------------------------
\* State
\* ------------------------------------------------------------------------

VARIABLES
    generator,           \* the CanonGenerator's attributes (optimal_canon.py)
    judge,               \* the Judge's attributes
    pc,                  \* where the running call stands
    possible_delays,     \* find_optimal_canon: possible_delays
    best_score,          \* find_optimal_canon: best_score
    best_configuration,  \* find_optimal_canon: best_configuration
    position,            \* passes of the innermost search loop made so far
    evaluated,           \* the configurations handed to the Judge, in order
    configuration,       \* the configuration of the voices last built
    voices,              \* the voices last built by create_canon_voice
    locals,              \* the locals of the last evaluate_score call
    score,               \* what the last evaluate_score call returned
    result,              \* what find_optimal_canon returned
    canon,               \* what canon.py's generate last built
    call,                \* a method called on its own: its name and arguments
    returned             \* what that call returned or raised

vars ==
    <<generator, judge, pc, possible_delays, best_score, best_configuration,
      position, evaluated, configuration, voices, locals, score, result,
      canon, call, returned>>

\* float('-inf')
NegInf == [kind |-> "-inf", num |-> 0, den |-> 1]

\* best_configuration = None
NoConfiguration == Configuration(0, 0, 0, 0)

NoLocals == judge_locals(<<>>, DefaultRubric, <<4, 4>>, <<"S">>)

NoCanon == generate(<<>>, 0, 0, 1, <<4, 4>>)

\* No method has been called on its own.
NoCall == [method |-> "none"]

NoValue == [kind |-> "none"]

\* score > best_score for a float score.
ScoreGT(a, b) == IF b.kind = "-inf" THEN TRUE ELSE FracGT(a, b)

\* ------------------------------------------------------------------------
\* Inputs
\* ------------------------------------------------------------------------

Quarter == Whole \div 4

Eighth == Whole \div 8

Half == Whole \div 2

\* c'4 e'4 g'4; e'4 fs'8 g'8 a'2; g'4 r4 c'4 d'4; c'4 b4
Melodies ==
    {<<Note(0, 4, Quarter), Note(4, 4, Quarter), Note(7, 4, Quarter)>>,
     <<Note(4, 4, Quarter), Note(6, 4, Eighth), Note(7, 4, Eighth),
       Note(9, 4, Half)>>,
     <<Note(7, 4, Quarter), Rest(Quarter), Note(0, 4, Quarter),
       Note(2, 4, Quarter)>>,
     <<Note(0, 4, Quarter), Note(11, 3, Quarter)>>}

CMajor == [tonic |-> 0, mode |-> "major"]

AMinor == [tonic |-> 9, mode |-> "minor"]

Resolutions ==
    {"beat", "downbeat", "strong_beat", "half_beat", "quarter_beat", "measure"}

\* No call of find_optimal_canon, evaluate_score or generate has begun.
InitLocals ==
    /\ pc = "init"
    /\ possible_delays = <<>>
    /\ best_score = NegInf
    /\ best_configuration = NoConfiguration
    /\ position = 0
    /\ evaluated = <<>>
    /\ configuration = NoConfiguration
    /\ voices = <<>>
    /\ locals = NoLocals
    /\ score = None
    /\ result = "pending"
    /\ canon = NoCanon

\* The state after CanonGenerator(...) with the default Judge, or with a
\* Judge given the same template and time signature and its own rubric.
InitInputs(melodies, signatures, templates, keys, resolutions, interval_lists, prolation_lists, rubrics) ==
    /\ \E m \in melodies, ts \in signatures, t \in templates, k \in keys,
          md \in 0..MaxDelayMeasures, r \in resolutions,
          il \in interval_lists, pl \in prolation_lists, rb \in rubrics :
          /\ generator =
                [melody_staff |-> m, time_signature |-> ts, beat_template |-> t,
                 key |-> k, scale_pitches |-> get_scale_pitches(k),
                 max_entry_delay |-> md, entry_resolution |-> r,
                 search_intervals |-> il, search_prolations |-> pl]
          /\ judge =
                [rubric |-> rb, beat_template |-> t, time_signature |-> ts]
    /\ InitLocals
    /\ call = NoCall
    /\ returned = NoValue

\* ------------------------------------------------------------------------
\* find_optimal_canon
\* ------------------------------------------------------------------------

Delays ==
    generate_entry_delays(generator.entry_resolution, generator.max_entry_delay,
                          generator.time_signature, judge.beat_template)

TotalPasses ==
    total_configurations(generator.search_prolations,
                         generator.search_intervals, possible_delays)

CurrentConfiguration ==
    configuration_at(position, generator.search_prolations,
                     generator.search_intervals, possible_delays)

BuiltVoices(cfg) ==
    canon_voices(generator.melody_staff, cfg, generator.scale_pitches,
                 generator.time_signature)

JudgeLocals(vs) ==
    judge_locals(temp_score(vs), judge.rubric, judge.time_signature,
                 judge.beat_template)

JudgeReturn(vs) ==
    evaluate_score(temp_score(vs), judge.rubric, judge.time_signature,
                   judge.beat_template)

\* Lines 988-991: the delay grid and the initial best.
BeginSearch ==
    /\ pc = "init"
    /\ possible_delays' = Delays
    /\ best_score' = NegInf
    /\ best_configuration' = NoConfiguration
    /\ position' = 0
    /\ pc' = "loop"
    /\ UNCHANGED <<generator, judge, call, returned, evaluated, configuration, voices, locals,
                   score, result, canon>>

\* Lines 1003-1004: a pass with delay2 == delay3 continues.
SkipConfiguration ==
    /\ pc = "loop"
    /\ position < TotalPasses
    /\ CurrentConfiguration.delay2 = CurrentConfiguration.delay3
    /\ position' = position + 1
    /\ UNCHANGED <<generator, judge, call, returned, pc, possible_delays, best_score,
                   best_configuration, evaluated, configuration, voices,
                   locals, score, result, canon>>

\* Lines 1006-1036: build the three voices, call the Judge, print the row
\* and compare.  Formatting a None score with "<16.3f" (and comparing it
\* with a float) raises TypeError, which leaves find_optimal_canon.
EvaluateConfiguration ==
    /\ pc = "loop"
    /\ position < TotalPasses
    /\ CurrentConfiguration.delay2 # CurrentConfiguration.delay3
    /\ configuration' = CurrentConfiguration
    /\ voices' = BuiltVoices(CurrentConfiguration)
    /\ locals' = JudgeLocals(voices')
    /\ score' = JudgeReturn(voices')
    /\ evaluated' = Append(evaluated, CurrentConfiguration)
    /\ IF score'.kind = "None"
       THEN /\ pc' = "raised"
            /\ result' = "TypeError"
            /\ UNCHANGED <<best_score, best_configuration, position>>
       ELSE /\ IF ScoreGT(score', best_score)
               THEN /\ best_score' = score'
                    /\ best_configuration' = CurrentConfiguration
               ELSE UNCHANGED <<best_score, best_configuration>>
            /\ position' = position + 1
            /\ UNCHANGED <<pc, result>>
    /\ UNCHANGED <<generator, judge, call, returned, possible_delays, canon>>

\* A variant without the test of best_configuration: the final voices are
\* built from whatever best_configuration holds.
FinishSearch_without_test ==
    /\ pc = "loop"
    /\ position = TotalPasses
    /\ pc' = "returned"
    /\ configuration' = best_configuration
    /\ voices' = BuiltVoices(best_configuration)
    /\ result' = "Score"
    /\ UNCHANGED <<generator, judge, call, returned, possible_delays,
                   best_score, best_configuration, position, evaluated,
                   locals, score, canon>>

\* Lines 1038-1085: rebuild the best configuration's voices and return the
\* Score, or return None when there is no best configuration.
FinishSearch ==
    /\ pc = "loop"
    /\ position = TotalPasses
    /\ pc' = "returned"
    /\ IF best_configuration # NoConfiguration
       THEN /\ configuration' = best_configuration
            /\ voices' = BuiltVoices(best_configuration)
            /\ result' = "Score"
       ELSE /\ result' = "None"
            /\ UNCHANGED <<configuration, voices>>
    /\ UNCHANGED <<generator, judge, call, returned, possible_delays, best_score,
                   best_configuration, position, evaluated, locals, score,
                   canon>>

SearchInit ==
    InitInputs(Melodies, {<<3, 4>>, <<4, 4>>},
               {<<"S", "w", "m", "w">>, <<"S", "w", "w">>, <<"w", "S", "w">>},
               {CMajor},
               {"beat", "downbeat", "half_beat", "quarter_beat", "strong_beat"},
               {<<1, 3>>, <<5>>, <<>>}, {<<1, 2>>, <<2>>},
               {DefaultRubric, CustomRubric})

Next ==
    \/ BeginSearch
    \/ SkipConfiguration
    \/ EvaluateConfiguration
    \/ FinishSearch

Spec == SearchInit /\ [][Next]_vars

\* ------------------------------------------------------------------------
\* The voice builders called on their own
\* ------------------------------------------------------------------------

Elements(q) == {q[k] : k \in 1..Len(q)}

\* The configurations the search loop builds voices for.
SearchConfigurations ==
    {Configuration(p, i, d2, d3) :
        p \in Elements(generator.search_prolations),
        i \in Elements(generator.search_intervals),
        d2 \in Elements(Delays), d3 \in Elements(Delays)}

\* Lines 1006-1024 for one configuration of the search space.
BuildVoices ==
    /\ pc = "init"
    /\ \E cfg \in SearchConfigurations :
          /\ cfg.delay2 # cfg.delay3
          /\ configuration' = cfg
          /\ voices' = BuiltVoices(cfg)
    /\ pc' = "built"
    /\ UNCHANGED <<generator, judge, call, returned, possible_delays, best_score,
                   best_configuration, position, evaluated, locals, score,
                   result, canon>>

TranspositionIntervals == {-12, -7, 0, 5}

ProlationFactors == {1, 2, 3}

\* canon.py: CanonGenerator(melody_staff, voice_count,
\* transposition_interval, prolation_factor, time_signature).generate().
GenerateCanon ==
    /\ pc = "init"
    /\ \E voice_count \in 1..default_voice_count,
          transposition_interval \in TranspositionIntervals,
          prolation_factor \in ProlationFactors :
          canon' = generate(generator.melody_staff, voice_count,
                            transposition_interval, prolation_factor,
                            generator.time_signature)
    /\ pc' = "generated"
    /\ UNCHANGED <<generator, judge, call, returned, possible_delays, best_score,
                   best_configuration, position, evaluated, configuration,
                   voices, locals, score, result>>

VoiceInit ==
    InitInputs(Melodies, {<<3, 4>>, <<2, 2>>, <<2, 8>>},
               {<<"S", "w", "m", "w">>}, {CMajor}, Resolutions,
               {<<1, 3, 7>>}, {<<1, 2>>}, {DefaultRubric})

VoiceNext ==
    \/ BuildVoices
    \/ GenerateCanon

SpecVoice == VoiceInit /\ [][VoiceNext]_vars

\* ------------------------------------------------------------------------
\* The Judge called on the voices of one configuration
\* ------------------------------------------------------------------------

\* Lines 1006-1028 for one configuration of the search space.
EvaluateScore ==
    /\ pc = "init"
    /\ \E cfg \in SearchConfigurations :
          /\ cfg.delay2 # cfg.delay3
          /\ configuration' = cfg
          /\ voices' = BuiltVoices(cfg)
    /\ locals' = JudgeLocals(voices')
    /\ score' = JudgeReturn(voices')
    /\ pc' = "judged"
    /\ UNCHANGED <<generator, judge, call, returned, possible_delays, best_score,
                   best_configuration, position, evaluated, result, canon>>

JudgeInit ==
    InitInputs(Melodies, {<<3, 4>>, <<4, 4>>},
               {<<"S", "w", "m", "w">>, <<"S", "w", "w">>}, {CMajor},
               {"beat"}, {<<1, 5>>}, {<<1, 2>>},
               {DefaultRubric, CustomRubric})

JudgeNext == EvaluateScore

SpecJudge == JudgeInit /\ [][JudgeNext]_vars

\* ------------------------------------------------------------------------
\* Methods called on their own
\* ------------------------------------------------------------------------

\* The scale degrees handed to transpose_pitch_by_scale_degrees range over
\* -MaxDegrees..MaxDegrees.
MaxDegrees == 8

\* The offsets handed to get_beat_strength range over 0..MaxOffsetWholes
\* whole notes.
MaxOffsetWholes == 2

GMajor == [tonic |-> 7, mode |-> "major"]

EFlatMajor == [tonic |-> 3, mode |-> "major"]

\* Every tonic in both modes of scale_patterns.
Keys == {[tonic |-> t, mode |-> m] : t \in 0..11, m \in {"major", "minor"}}

\* Octave numbers: two commas up to three apostrophes.
Registers == 1..6

Pitches == {Pitch(n, o) : n \in 0..11, o \in Registers}

\* Time signatures with a numerator that is not positive.
InvalidSignatures == {<<0, 4>>, <<0, 8>>, <<-3, 4>>}

ValidSignatures == {<<3, 4>>, <<4, 4>>, <<6, 8>>, <<2, 2>>}

Templates == {<<"S", "w", "m", "w">>, <<"S", "w", "w">>, <<"w", "S">>}

\* CanonGenerator(melody_staff, TimeSignature((4, 4)), ['S', 'w', 'm', 'w']):
\* every other argument at its default.
SampleGenerator ==
    [melody_staff |->
        <<Note(0, 4, Quarter), Note(4, 4, Quarter), Note(7, 4, Quarter)>>,
     time_signature |-> <<4, 4>>,
     beat_template |-> <<"S", "w", "m", "w">>,
     key |-> CMajor,
     scale_pitches |-> get_scale_pitches(CMajor),
     max_entry_delay |-> 2,
     entry_resolution |-> "beat",
     search_intervals |-> <<1, 2, 3, 4, 5, 6, 7>>,
     search_prolations |-> <<1, 2>>]

\* Judge(Rubric(), beat_template, time_signature) of the generator.
JudgeOf(g) ==
    [rubric |-> DefaultRubric, beat_template |-> g.beat_template,
     time_signature |-> g.time_signature]

Value(v) == [kind |-> "value", value |-> v]

Raises(e) == [kind |-> "raises", value |-> e]

\* The call does not return.
Diverges == [kind |-> "diverges", value |-> "none"]

CallFrame ==
    <<generator, judge, possible_delays, best_score, best_configuration,
      position, evaluated, configuration, voices, locals, score, result,
      canon, call>>

\* generator.transpose_pitch_by_scale_degrees(pitch, scale_degrees)
CallTranspose ==
    /\ pc = "init"
    /\ call.method = "transpose_pitch_by_scale_degrees"
    /\ returned' = Value(transpose_pitch_by_scale_degrees(
                            generator.scale_pitches, call.pitch,
                            call.scale_degrees))
    /\ pc' = "called"
    /\ UNCHANGED CallFrame

\* generator.transpose_pitch_by_scale_degrees(result, -scale_degrees) on the
\* result of the first call.
TransposeBack ==
    /\ pc = "called"
    /\ call.method = "transpose_pitch_by_scale_degrees"
    /\ returned' = Value(transpose_pitch_by_scale_degrees(
                            generator.scale_pitches, returned.value,
                            -call.scale_degrees))
    /\ pc' = "called_back"
    /\ UNCHANGED CallFrame

\* judge.get_beat_strength(offset)
CallGetBeatStrength ==
    /\ pc = "init"
    /\ call.method = "get_beat_strength"
    /\ returned' =
          IF get_beat_strength_raises(judge.time_signature)
          THEN Raises("ZeroDivisionError")
          ELSE Value(get_beat_strength(call.offset, judge.time_signature,
                                       judge.beat_template))
    /\ pc' = "called"
    /\ UNCHANGED CallFrame

\* What generator.generate_entry_delays() comes to: the strong_beat loop asks
\* the Judge for the strength of its first delay, the other loops only step.
generate_entry_delays_outcome(g, template) ==
    LET ts == g.time_signature
        entered == 0 <= g.max_entry_delay * ts[1] * BeatTicks(ts)
    IN IF g.entry_resolution = "strong_beat" /\ entered
          /\ get_beat_strength_raises(ts)
       THEN Raises("ZeroDivisionError")
       ELSE IF ~delay_loop_terminates(g.entry_resolution, g.max_entry_delay, ts)
       THEN Diverges
       ELSE Value(generate_entry_delays(g.entry_resolution, g.max_entry_delay,
                                        ts, template))

\* generator.generate_entry_delays()
CallGenerateEntryDelays ==
    /\ pc = "init"
    /\ call.method = "generate_entry_delays"
    /\ returned' = generate_entry_delays_outcome(generator, judge.beat_template)
    /\ pc' = "called"
    /\ UNCHANGED CallFrame

\* generator.create_canon_voice(melody_notes, entry_delay, name,
\* voice_number, max_delay_used, canon_interval, prolation)
CallCreateCanonVoice ==
    /\ pc = "init"
    /\ call.method = "create_canon_voice"
    /\ LET v == create_canon_voice(call.melody_notes, call.entry_delay,
                                   call.voice_number, call.max_delay_used,
                                   call.canon_interval, call.prolation,
                                   generator.scale_pitches,
                                   generator.time_signature)
       IN returned' = IF v.terminates THEN Value(v) ELSE Diverges
    /\ pc' = "called"
    /\ UNCHANGED CallFrame

\* The class evaluate_score counts one pair of Notes in.
pair_class(interval_name) ==
    IF is_unison(interval_name) THEN "unison"
    ELSE IF is_consonant(interval_name) THEN "consonance"
    ELSE "dissonance"

\* judge.calculate_interval(pitch1, pitch2), is_consonant and is_unison, as
\* the inner loop of evaluate_score applies them to one pair of Notes.
CallClassifyPair ==
    /\ pc = "init"
    /\ call.method = "calculate_interval"
    /\ LET interval == calculate_interval(call.pitch1, call.pitch2)
       IN returned' = Value([interval |-> interval,
                             is_cons |-> is_consonant(interval),
                             is_unis |-> is_unison(interval),
                             class |-> pair_class(interval)])
    /\ pc' = "called"
    /\ UNCHANGED CallFrame

\* The mode words of the key strings handed to _get_scale_pitches: the two
\* modes of scale_patterns, two words that are no key of it, and no second
\* word at all.
ModeWords == {"major", "minor", "dorian", "maj", ""}

\* generator._get_scale_pitches(key)
CallGetScalePitches ==
    /\ pc = "init"
    /\ call.method = "_get_scale_pitches"
    /\ returned' = Value(get_scale_pitches(call.key))
    /\ pc' = "called"
    /\ UNCHANGED CallFrame

\* The melodies handed to create_canon_voice: the Notes of the sample
\* melodies, and no Note at all.
CallMelodies == {SelectNotes(m) : m \in Melodies} \cup {<<>>}

CallDelays == {0, Eighth, Quarter, 3 * Quarter}

CallInit ==
    /\ InitLocals
    /\ returned = NoValue
    /\ \/ \E k \in Keys, p \in Pitches, d \in (-MaxDegrees)..MaxDegrees :
             /\ generator = [SampleGenerator EXCEPT
                                !.key = k,
                                !.scale_pitches = get_scale_pitches(k)]
             /\ call = [method |-> "transpose_pitch_by_scale_degrees",
                        pitch |-> p, scale_degrees |-> d]
       \/ \E ts \in ValidSignatures \cup InvalidSignatures, t \in Templates,
             offset \in 0..(MaxOffsetWholes * Whole) :
             /\ generator = [SampleGenerator EXCEPT !.time_signature = ts,
                                                    !.beat_template = t]
             /\ call = [method |-> "get_beat_strength", offset |-> offset]
       \/ \E ts \in ValidSignatures \cup InvalidSignatures, t \in Templates,
             r \in Resolutions, md \in 0..MaxDelayMeasures :
             /\ generator = [SampleGenerator EXCEPT !.time_signature = ts,
                                                    !.beat_template = t,
                                                    !.entry_resolution = r,
                                                    !.max_entry_delay = md]
             /\ call = [method |-> "generate_entry_delays"]
       \/ \E m \in CallMelodies, d \in CallDelays, extra \in CallDelays,
             n \in 1..3, i \in {1, 3}, p \in {1, 2} :
             /\ generator = SampleGenerator
             /\ call = [method |-> "create_canon_voice", melody_notes |-> m,
                        entry_delay |-> d, voice_number |-> n,
                        max_delay_used |-> d + extra, canon_interval |-> i,
                        prolation |-> p]
       \/ \E p1 \in Pitches, p2 \in Pitches :
             /\ p1.oct \in {3, 4}
             /\ generator = SampleGenerator
             /\ call = [method |-> "calculate_interval", pitch1 |-> p1,
                        pitch2 |-> p2]
       \/ \E tonic \in 0..11, mode \in ModeWords :
             /\ generator = SampleGenerator
             /\ call = [method |-> "_get_scale_pitches",
                        key |-> [tonic |-> tonic, mode |-> mode]]
    /\ judge = JudgeOf(generator)

CallNext ==
    \/ CallTranspose
    \/ TransposeBack
    \/ CallGetBeatStrength
    \/ CallGenerateEntryDelays
    \/ CallCreateCanonVoice
    \/ CallClassifyPair
    \/ CallGetScalePitches

SpecCall == CallInit /\ [][CallNext]_vars

\* ------------------------------------------------------------------------
\* Properties
\* ------------------------------------------------------------------------

Finished == pc \in {"returned", "raised"}

\* The score the Judge computes for the voices of a configuration.
FinalScoreOf(cfg) == JudgeLocals(BuiltVoices(cfg)).final_score

ValidPasses ==
    {n \in 0..(TotalPasses - 1) :
        LET cfg == configuration_at(n, generator.search_prolations,
                                    generator.search_intervals, possible_delays)
        IN cfg.delay2 # cfg.delay3}

PassConfiguration(n) ==
    configuration_at(n, generator.search_prolations,
                     generator.search_intervals, possible_delays)

\* C1: when find_optimal_canon has evaluated at least one configuration, it
\* has selected a configuration, and the selected configuration's Judge
\* score is greater than or equal to the score of every evaluated one.
C1_SelectedScoreIsMaximal ==
    (Finished /\ evaluated # <<>>) =>
        /\ best_configuration # NoConfiguration
        /\ \A k \in 1..Len(evaluated) :
              FracGE(FinalScoreOf(best_configuration),
                     FinalScoreOf(evaluated[k]))

\* C2: when two or more configurations of the search have the same maximal
\* score, find_optimal_canon ends with the one that comes first in the
\* enumeration order (prolation, interval, delay2, delay3) selected.
C2_FirstOfTiedMaximaSelected ==
    Finished =>
        LET scored == {<<n, FinalScoreOf(PassConfiguration(n))>> :
                          n \in ValidPasses}
            maximal == {p \in scored : \A q \in scored : FracGE(p[2], q[2])}
        IN Cardinality(maximal) >= 2 =>
              \E p \in maximal :
                  /\ \A q \in maximal : p[1] <= q[1]
                  /\ best_configuration = PassConfiguration(p[1])

\* C3: evaluate_score returns the final numeric score it computed, never
\* None.
C3_ReturnsFinalScore ==
    pc = "judged" =>
        /\ score.kind = "float"
        /\ FracEq(score, locals.final_score)

ClaimedWeights(beat_strength) ==
    CASE beat_strength = "S" ->
           <<judge.rubric.strong_beat_consonance,
             judge.rubric.strong_beat_dissonance_penalty,
             judge.rubric.strong_beat_unison_penalty>>
      [] beat_strength = "m" ->
           <<judge.rubric.medium_beat_consonance,
             judge.rubric.medium_beat_dissonance_penalty,
             judge.rubric.medium_beat_unison_penalty>>
      [] OTHER ->
           <<judge.rubric.weak_beat_consonance,
             judge.rubric.weak_beat_dissonance_penalty,
             judge.rubric.weak_beat_unison_penalty>>

ClaimedMomentScore(e) ==
    e.consonances * ClaimedWeights(e.beat_strength)[1]
      + e.dissonances * ClaimedWeights(e.beat_strength)[2]
      + e.unisons * ClaimedWeights(e.beat_strength)[3]

RECURSIVE ClaimedTotal(_)
ClaimedTotal(entries) ==
    IF entries = <<>> THEN 0
    ELSE ClaimedMomentScore(Head(entries)) + ClaimedTotal(Tail(entries))

\* What one pass of the Judge's loop adds to total_score at an offset.
MomentContribution(offset) ==
    judge_moment(JudgeLocals0, MomentLeaves(temp_score(voices), offset),
                 offset, judge.rubric, judge.time_signature,
                 judge.beat_template).total_score

FifthOnStrongBeat(e) ==
    /\ e.beat_strength = "S"
    /\ e.intervals = <<IntervalName("P", 5)>>

RaisedRubric(delta) ==
    [judge.rubric EXCEPT
        !.strong_beat_consonance = judge.rubric.strong_beat_consonance + delta]

RaisedFinalScore(delta) ==
    judge_locals(temp_score(voices), RaisedRubric(delta),
                 judge.time_signature, judge.beat_template).final_score

\* C7: for the same voices, raising strong_beat_consonance with every other
\* weight unchanged never lowers the score the Judge computes.
C7_MonotoneInStrongBeatConsonance ==
    pc = "judged" =>
        \A delta \in 1..MaxRaise :
            FracGE(RaisedFinalScore(delta), locals.final_score)

\* A judged score that raising the weight strictly raises.
C7_Witness ==
    /\ pc = "judged"
    /\ locals.strong_beat_consonances > 0
    /\ FracGT(RaisedFinalScore(1), locals.final_score)

IsNote(leaf) == leaf.kind = "Note"

\* The melody the voices are built from: the Notes of the melody staff.
MelodyNotes == SelectSeq(generator.melody_staff, IsNote)

EntryDelayOf(v) ==
    IF v = 1 THEN 0
    ELSE IF v = 2 THEN configuration.delay2 ELSE configuration.delay3

MaxDelayUsed == Max(0, Max(configuration.delay2, configuration.delay3))

RequiredSpan(v) ==
    MaxDelayUsed + SumDur(MelodyNotes) * Pow(configuration.prolation, v - 1)

C10_ProlationAndTranspositionPerVoice ==
    /\ pc = "built" =>
          \A v \in 1..Len(voices) : \A j \in 1..Len(voices[v].notes) :
              LET m == MelodyNotes[((j - 1) % Len(MelodyNotes)) + 1]
                  n == voices[v].notes[j]
                  depth == (v - 1) * (configuration.canon_interval - 1)
                  scale == generator.scale_pitches
              IN /\ n.dur = m.dur * Pow(configuration.prolation, v - 1)
                 /\ IF v = 1 THEN n = m
                    ELSE /\ LeafPitch(n)
                              = transpose_pitch_by_scale_degrees(
                                    scale, LeafPitch(m), depth)
                         /\ n.pc = scale[((current_scale_index(scale, LeafPitch(m))
                                              - depth) % 7) + 1]
    /\ pc = "generated" =>
          \A v \in 1..canon.voice_count :
              /\ Len(canon.notes_per_voice[v]) = Len(generator.melody_staff)
              /\ \A k \in 1..Len(generator.melody_staff) :
                    LET m == generator.melody_staff[k]
                        n == canon.notes_per_voice[v][k]
                    IN /\ n.kind = m.kind
                       /\ n.dur = m.dur * Pow(canon.prolation_factor, v - 1)
                       /\ m.kind = "Note" =>
                             PitchNumber(LeafPitch(n))
                               = PitchNumber(LeafPitch(m))
                                   + (v - 1) * canon.transposition_interval

\* Three voices built at prolation 2 and a canon interval above the unison,
\* the third voice repeating the melody.
C10_Witness ==
    /\ pc = "built"
    /\ configuration.prolation = 2
    /\ configuration.canon_interval > 1
    /\ Len(voices[2].notes) > Len(MelodyNotes)
    /\ voices[3].notes[1].dur = 4 * MelodyNotes[1].dur

TransposeCalled ==
    pc = "called" /\ call.method = "transpose_pitch_by_scale_degrees"

InScale(p) ==
    \E k \in 1..Len(generator.scale_pitches) : generator.scale_pitches[k] = p.pc

\* C11: transpose_pitch_by_scale_degrees(pitch, d) returns the scale pitch
\* class at index (idx - d) mod 7, one register lower when d > 0 and the new
\* index is greater than idx and in the register of the pitch otherwise,
\* whatever octave marks the pitch is written with; c' transposed by 2
\* degrees in C major is a (A3).
C11_ScalePitchAndRegister ==
    TransposeCalled =>
        LET idx == current_scale_index(generator.scale_pitches, call.pitch)
            d == call.scale_degrees
            new == (idx - d) % 7
        IN /\ returned.kind = "value"
           /\ returned.value.pc = generator.scale_pitches[new + 1]
           /\ returned.value.oct =
                 IF d > 0 /\ new > idx THEN call.pitch.oct - 1
                 ELSE call.pitch.oct
           /\ (generator.key = CMajor /\ call.pitch = Pitch(0, 4) /\ d = 2)
                 => returned.value = Pitch(9, 3)

\* A pitch written without octave marks that wraps below the scale's first
\* degree and comes back one comma lower.
C11_Witness ==
    /\ TransposeCalled
    /\ call.pitch.oct = 3
    /\ call.scale_degrees > 0
    /\ returned.value.oct = 2

\* C12: for a pitch whose pitch class is in the scale and |d| <= 6,
\* transposing by d scale degrees and then by -d yields the original pitch
\* class.
C12_RoundTripKeepsPitchClass ==
    (/\ pc = "called_back"
     /\ call.method = "transpose_pitch_by_scale_degrees"
     /\ InScale(call.pitch)
     /\ Abs(call.scale_degrees) <= 6)
        => /\ returned.kind = "value"
           /\ returned.value.pc = call.pitch.pc

\* A round trip that restores the pitch class in another register.
C12_Witness ==
    /\ pc = "called_back"
    /\ InScale(call.pitch)
    /\ call.scale_degrees \in 1..6
    /\ returned.value.pc = call.pitch.pc
    /\ returned.value.oct # call.pitch.oct

RECURSIVE GeometricSum(_, _)
\* 1 + p + ... + p^(n-1)
GeometricSum(p, n) == IF n = 0 THEN 0 ELSE Pow(p, n - 1) + GeometricSum(p, n - 1)

FirstNoteIndex(staff) ==
    CHOOSE k \in 1..Len(staff) :
        /\ staff[k].kind = "Note"
        /\ \A j \in 1..(k - 1) : staff[j].kind # "Note"

\* The offset at which the first Note of a staff begins.
FirstNoteOffset(staff) == SumDur(SubSeq(staff, 1, FirstNoteIndex(staff) - 1))

\* C13: in canon.py's generate, voice k (of a melody that begins with a
\* note) rests until voice k-1 has finished one statement: its first note
\* begins at offset melodyDuration * (1 + p + ... + p^(k-2)); three quarter
\* notes in 3/4 at prolation 2 give voice 2 a first note at 3/4 lasting 1/2.
C13_VoiceEntersAfterPreviousStatement ==
    (pc = "generated" /\ generator.melody_staff[1].kind = "Note") =>
        /\ \A v \in 1..canon.voice_count :
              FirstNoteOffset(canon.staves[v])
                = SumDur(generator.melody_staff)
                    * GeometricSum(canon.prolation_factor, v - 1)
        /\ (/\ generator.melody_staff
                 = <<Note(0, 4, Quarter), Note(4, 4, Quarter),
                     Note(7, 4, Quarter)>>
            /\ generator.time_signature = <<3, 4>>
            /\ canon.prolation_factor = 2
            /\ canon.voice_count >= 2)
              => /\ FirstNoteOffset(canon.staves[2]) = 3 * Quarter
                 /\ canon.staves[2][FirstNoteIndex(canon.staves[2])].dur = Half

\* Three voices at prolation 2: the third enters after three melody
\* durations.
C13_Witness ==
    /\ pc = "generated"
    /\ canon.voice_count = 3
    /\ canon.prolation_factor = 2
    /\ FirstNoteOffset(canon.staves[3]) = 3 * SumDur(generator.melody_staff)
    /\ FirstNoteOffset(canon.staves[2]) = SumDur(generator.melody_staff)

\* No pass of the search loop has two different delays: the delay grid has
\* at most one delay, or a search list is empty.
NothingToEvaluate == pc # "init" /\ ValidPasses = {}

\* C14: when every candidate of the search is skipped or the search space
\* is empty, find_optimal_canon goes through the passes without raising and
\* without building a voice, and returns None.
C14_EmptySearchReturnsNone ==
    NothingToEvaluate =>
        /\ pc \in {"loop", "returned"}
        /\ voices = <<>>
        /\ evaluated = <<>>
        /\ best_configuration = NoConfiguration
        /\ position <= TotalPasses
        /\ (pc = "loop" /\ position < TotalPasses)
              => CurrentConfiguration.delay2 = CurrentConfiguration.delay3
        /\ pc = "returned" => result = "None"

\* The search returned after skipping every pass of a grid with one delay.
C14_Witness ==
    /\ pc = "returned"
    /\ result = "None"
    /\ Len(possible_delays) = 1
    /\ TotalPasses > 0
    /\ position = TotalPasses

\* The search returned from a delay grid with no delay at all.
C14_EmptyGridReached ==
    /\ pc = "returned"
    /\ result = "None"
    /\ possible_delays = <<>>

CalledMethod(m) == pc = "called" /\ call.method = m

\* C15: building a voice from a melody with no event fails with an
\* EmptyMelody error, for every entry delay and required span: the builder
\* neither returns a voice without a melodic event nor runs for ever.
C15_EmptyMelodyRejected ==
    (CalledMethod("create_canon_voice") /\ call.melody_notes = <<>>) =>
        returned = Raises("EmptyMelody")

InvalidSignature(ts) == ts[1] <= 0 \/ ts[2] <= 0

\* C16: a time signature whose numerator or denominator is not positive is
\* rejected with an InvalidTimeSignature error before the beat-strength
\* computation or the delay grid uses it, so no loop is entered with a step
\* that is not positive.
C16_InvalidTimeSignatureRejected ==
    (/\ pc = "called"
     /\ call.method \in {"get_beat_strength", "generate_entry_delays"}
     /\ InvalidSignature(generator.time_signature)) =>
        returned = Raises("InvalidTimeSignature")

\* C17: find_optimal_canon builds and scores every tuple (prolation,
\* interval, delay2, delay3) of the search lists and the delay grid with
\* delay2 # delay3 exactly once and no tuple with delay2 = delay3; it makes
\* |prolations| * |intervals| * |grid| * (|grid| - 1) evaluations.
C17_EveryValidTupleEvaluatedOnce ==
    Finished =>
        /\ Len(evaluated)
             = Len(generator.search_prolations) * Len(generator.search_intervals)
                 * Len(possible_delays) * (Len(possible_delays) - 1)
        /\ \A n \in ValidPasses :
              Cardinality({k \in 1..Len(evaluated) :
                              evaluated[k] = PassConfiguration(n)}) = 1
        /\ \A k \in 1..Len(evaluated) :
              evaluated[k].delay2 # evaluated[k].delay3

\* The class the claim gives a pair of pitches.
ClaimedPairClass(p1, p2) ==
    LET semitones == Abs(PitchNumber(p1) - PitchNumber(p2))
    IN IF semitones \in {0, 12} /\ p1.pc = p2.pc THEN "unison"
       ELSE IF (semitones % 12) \in {0, 3, 4, 5, 7, 8, 9} THEN "consonance"
       ELSE "dissonance"

\* C18: the Judge puts every pair of notes in exactly one class: unison for
\* a perfect unison or an octave, consonance when the semitone distance
\* mod 12 is in {0, 3, 4, 5, 7, 8, 9} and the pair is no unison, dissonance
\* otherwise, pairs more than an octave apart included (a tenth or a
\* twelfth is a consonance).
C18_PairClassBySemitoneClass ==
    CalledMethod("calculate_interval") =>
        returned.value.class = ClaimedPairClass(call.pitch1, call.pitch2)

IsNoteLeaf(leaf) == leaf.kind = "Note"

\* The Notes sounding at an offset of the judged score.
NotesSoundingAt(offset) ==
    Len(SelectSeq(MomentLeaves(temp_score(voices), offset), IsNoteLeaf))

\* C19: a vertical moment at which fewer than two notes sound adds no pair
\* to any count and is not counted among the moments that normalise the
\* score; a rest never forms a pair.
C19_MomentsWithoutPairNotCounted ==
    pc = "judged" =>
        /\ locals.moment_count
             = Cardinality({o \in MomentOffsets(temp_score(voices)) :
                               NotesSoundingAt(o) >= 2})
        /\ \A k \in 1..Len(locals.interval_analysis) :
              LET e == locals.interval_analysis[k]
                  n == NotesSoundingAt(e.offset)
              IN /\ n >= 2
                 /\ e.pairs = (n * (n - 1)) \div 2

\* C20: get_beat_strength(offset) is beat_template[floor((offset mod
\* measureDuration) / beatDuration) mod len(beat_template)] with
\* beatDuration = 1/denominator and measureDuration = numerator/denominator,
\* so offset and offset + measureDuration have the same strength.
C20_BeatStrengthFromTemplate ==
    (/\ CalledMethod("get_beat_strength")
     /\ ~InvalidSignature(judge.time_signature)) =>
        LET beatDuration == Whole \div judge.time_signature[2]
            measureDuration == judge.time_signature[1] * beatDuration
            beat == (call.offset % measureDuration) \div beatDuration
        IN /\ returned
                = Value(judge.beat_template[
                            (beat % Len(judge.beat_template)) + 1])
           /\ get_beat_strength(call.offset + measureDuration,
                                judge.time_signature, judge.beat_template)
                = returned.value

\* An offset past the first measure, between two beats, in a measure whose
\* beats outnumber the template.
C20_Witness ==
    /\ CalledMethod("get_beat_strength")
    /\ judge.time_signature = <<6, 8>>
    /\ Len(judge.beat_template) = 4
    /\ call.offset = 6 * Eighth + 5 * Eighth + 1
    /\ returned = Value("w")

\* C21: the Judge can be configured with the tree-based meter policy, under
\* which get_beat_strength(offset) is 'S' exactly when the offset normalised
\* modulo the measure is the downbeat (the depth-0 boundary of the meter
\* tree), deeper boundaries being 'm' or 'w'; an offset between two beats is
\* never 'S'.
C21_StrongOnlyOnDownbeat ==
    (/\ CalledMethod("get_beat_strength")
     /\ ~InvalidSignature(judge.time_signature)) =>
        /\ returned.kind = "value"
        /\ (returned.value = "S")
              <=> (call.offset % MeasureTicks(judge.time_signature) = 0)

\* C22: every event of the melody, rests as well as notes, appears in order
\* in the first statement of every built voice with its duration multiplied
\* by prolation^(k-1), so one statement of voice k lasts the melody's total
\* duration, rests included, times prolation^(k-1).
C22_StatementKeepsEveryEvent ==
    pc = "built" =>
        \A v \in 1..Len(voices) :
            LET melody == generator.melody_staff
                mult == Pow(configuration.prolation, v - 1)
            IN /\ Len(voices[v].notes) >= Len(melody)
               /\ \A k \in 1..Len(melody) :
                     /\ voices[v].notes[k].kind = melody[k].kind
                     /\ voices[v].notes[k].dur = melody[k].dur * mult
               /\ SumDur(SubSeq(voices[v].notes, 1, Len(melody)))
                    = SumDur(melody) * mult

\* The time at which the last-entering voice of canon.py's generate has
\* stated the melody once: it rests through one statement of every voice
\* before it and then states the melody at its own prolation.
SlowestVoiceCompletes ==
    SumDur(generator.melody_staff)
        * GeometricSum(canon.prolation_factor, canon.voice_count)

\* C23: in canon.py's generate, for every voice count >= 1 and every
\* prolation factor >= 1, no staff ends before the slowest (last-entering)
\* voice has stated the melody once.
C23_NoStaffEndsBeforeSlowestStatement ==
    pc = "generated" =>
        \A s \in 1..canon.voice_count :
            SumDur(canon.staves[s]) >= SlowestVoiceCompletes

\* The semitone offsets the claim gives a mode word.
ClaimedScaleOffsets(mode) ==
    IF mode = "minor" THEN <<0, 2, 3, 5, 7, 8, 10>>
    ELSE <<0, 2, 4, 5, 7, 9, 11>>

\* C24: _get_scale_pitches returns exactly 7 pitch classes (tonic + offset)
\* mod 12, in order, with offsets [0,2,4,5,7,9,11] for major and
\* [0,2,3,5,7,8,10] for minor; a key with an unrecognised mode or with no
\* mode yields the major scale of the tonic.
C24_ScaleOfKey ==
    CalledMethod("_get_scale_pitches") =>
        /\ returned.kind = "value"
        /\ Len(returned.value) = 7
        /\ \A k \in 1..7 :
              /\ returned.value[k] \in 0..11
              /\ (returned.value[k] - call.key.tonic
                    - ClaimedScaleOffsets(call.key.mode)[k]) % 12 = 0

\* A key with an unrecognised mode whose major scale passes the pitch class
\* number 11.
C24_Witness ==
    /\ CalledMethod("_get_scale_pitches")
    /\ call.key = [tonic |-> 7, mode |-> "dorian"]
    /\ returned = Value(<<7, 9, 11, 0, 2, 4, 6>>)

\* The distance between two pitch class numbers round the circle of twelve
\* semitones.
CircularDistance(a, b) == Min((a - b) % 12, (b - a) % 12)

\* The index (0-based) of the scale pitch class nearest to a pitch class
\* number, the earliest one among equally near ones.
NearestScaleIndex(scale, pcnum) ==
    CHOOSE i \in 0..(Len(scale) - 1) :
        /\ \A j \in 0..(Len(scale) - 1) :
              CircularDistance(scale[i + 1], pcnum)
                  <= CircularDistance(scale[j + 1], pcnum)
        /\ \A j \in 0..(i - 1) :
              CircularDistance(scale[j + 1], pcnum)
                  # CircularDistance(scale[i + 1], pcnum)

\* C25: transposing a pitch whose pitch class is not in the scale never
\* fails: the pitch counts as the scale degree nearest to it by circular
\* semitone distance, the earliest in scale order among equally near ones,
\* and the result is a pitch whose pitch class belongs to the scale.
C25_OutOfScalePitchResolvesToNearest ==
    (TransposeCalled /\ ~InScale(call.pitch)) =>
        LET scale == generator.scale_pitches
            idx == NearestScaleIndex(scale, call.pitch.pc)
        IN /\ returned.kind = "value"
           /\ InScale(returned.value)
           /\ returned.value.pc
                = scale[((idx - call.scale_degrees) % 7) + 1]

\* C in D major lies one semitone from b (index 5) going round the octave
\* and one semitone from cs (index 6): it counts as b, and one degree down
\* is a.
C25_Witness ==
    /\ TransposeCalled
    /\ generator.key = [tonic |-> 2, mode |-> "major"]
    /\ call.pitch = Pitch(0, 4)
    /\ call.scale_degrees = 1
    /\ returned = Value(Pitch(9, 4))

\* The step the claim gives an entry resolution.
ClaimedDelayStep(entry_resolution, ts) ==
    CASE entry_resolution = "downbeat" -> MeasureTicks(ts)
      [] entry_resolution = "half_beat" -> BeatTicks(ts) \div 2
      [] entry_resolution = "quarter_beat" -> BeatTicks(ts) \div 4
      [] OTHER -> BeatTicks(ts)

\* The delays the claim puts on the grid.
ClaimedDelays ==
    LET ts == generator.time_signature
        template == judge.beat_template
        step == ClaimedDelayStep(generator.entry_resolution, ts)
    IN {d \in 0..(generator.max_entry_delay * MeasureTicks(ts)) :
           /\ d % step = 0
           /\ generator.entry_resolution = "strong_beat" =>
                 template[(((d % MeasureTicks(ts)) \div BeatTicks(ts))
                              % Len(template)) + 1] = "S"}

\* C26: under a time signature with positive terms, generate_entry_delays
\* returns a strictly increasing list that holds exactly the multiples of
\* the resolution's step (one measure, a beat, half a beat, a quarter of a
\* beat; a beat for an unknown resolution) from 0 to max_entry_delay
\* measures, and in strong_beat mode exactly the beat multiples in that
\* range whose beat strength is 'S'.
C26_DelayGridOfResolution ==
    (/\ CalledMethod("generate_entry_delays")
     /\ ~InvalidSignature(generator.time_signature)) =>
        /\ returned.kind = "value"
        /\ \A k \in 1..(Len(returned.value) - 1) :
              returned.value[k] < returned.value[k + 1]
        /\ {returned.value[k] : k \in 1..Len(returned.value)} = ClaimedDelays

\* The strong beats of one 4/4 measure and the downbeat that closes it,
\* under a template with one 'S'.
C26_Witness ==
    /\ CalledMethod("generate_entry_delays")
    /\ generator.entry_resolution = "strong_beat"
    /\ generator.time_signature = <<4, 4>>
    /\ judge.beat_template = <<"S", "w", "m", "w">>
    /\ returned = Value(<<0, Whole>>)

\* C27: in every key, for a pitch whose pitch class is in the scale and
\* 1 <= d <= 6, transpose_pitch_by_scale_degrees(pitch, d) returns the scale
\* pitch d diatonic steps below the original: strictly lower than the
\* original pitch and less than an octave below it.
C27_DegreesDownStayWithinOctave ==
    (TransposeCalled /\ InScale(call.pitch) /\ call.scale_degrees \in 1..6) =>
        /\ returned.kind = "value"
        /\ InScale(returned.value)
        /\ PitchNumber(returned.value) < PitchNumber(call.pitch)
        /\ PitchNumber(call.pitch) - PitchNumber(returned.value) < 12

\* The melody note that the j-th note of a built voice states.
StatedNote(j) ==
    call.melody_notes[((j - 1) % Len(call.melody_notes)) + 1]

UnisonVoiceBuilt ==
    /\ CalledMethod("create_canon_voice")
    /\ call.canon_interval = 1
    /\ returned.kind = "value"

\* C28 as stated: transposing by 0 scale degrees returns the pitch it was
\* given, in or out of the scale, so that at canon interval 1 voices 2 and 3
\* carry exactly the melody's pitches, chromatic notes included.
C28_ZeroDegreesIsIdentity ==
    /\ (TransposeCalled /\ call.scale_degrees = 0) =>
          returned = Value(call.pitch)
    /\ UnisonVoiceBuilt =>
          \A j \in 1..Len(returned.value.notes) :
              LeafPitch(returned.value.notes[j]) = LeafPitch(StatedNote(j))

\* What a transposition by 0 scale degrees makes of a pitch: the pitch
\* itself when its pitch class is in the scale, else the nearest scale pitch
\* class (the earliest among equally near ones) under the octave marks of
\* the pitch.
ZeroDegreesImage(p) ==
    IF InScale(p) THEN p
    ELSE Pitch(generator.scale_pitches[
                   NearestScaleIndex(generator.scale_pitches, p.pc) + 1],
               p.oct)

\* C28, amended: transposing by 0 scale degrees is the identity on the
\* pitches whose pitch class is in the scale and replaces any other pitch by
\* the nearest scale pitch class under the same octave marks; at canon
\* interval 1 voice 1 carries the melody's pitches and voices 2 and 3 carry
\* them with every chromatic note so replaced.
C28_ZeroDegreesSnapsToScale ==
    /\ (TransposeCalled /\ call.scale_degrees = 0) =>
          returned = Value(ZeroDegreesImage(call.pitch))
    /\ UnisonVoiceBuilt =>
          \A j \in 1..Len(returned.value.notes) :
              LeafPitch(returned.value.notes[j])
                = IF call.voice_number = 1 THEN LeafPitch(StatedNote(j))
                  ELSE ZeroDegreesImage(LeafPitch(StatedNote(j)))

\* The second voice of a unison canon on e' fs' g' a' in C major states
\* f' for fs'.
C28_Witness ==
    /\ UnisonVoiceBuilt
    /\ call.voice_number = 2
    /\ Len(call.melody_notes) >= 2
    /\ Len(returned.value.notes) >= 2
    /\ LeafPitch(call.melody_notes[2]) = Pitch(6, 4)
    /\ LeafPitch(returned.value.notes[2]) = Pitch(5, 4)

\* C29: at every step of the search loop best_score is the maximum of the
\* Judge scores of the configurations evaluated so far (negative infinity
\* when there is none) and best_configuration is the earliest evaluated
\* configuration that attains it (unset when there is none).
C29_BestIsRunningMaximum ==
    pc \in {"loop", "raised", "returned"} =>
        IF evaluated = <<>>
        THEN best_score = NegInf /\ best_configuration = NoConfiguration
        ELSE /\ best_score.kind = "float"
             /\ \A k \in 1..Len(evaluated) :
                   FracGE(best_score, FinalScoreOf(evaluated[k]))
             /\ \E k \in 1..Len(evaluated) :
                   /\ best_configuration = evaluated[k]
                   /\ FracEq(best_score, FinalScoreOf(evaluated[k]))
                   /\ \A j \in 1..(k - 1) :
                         FracGT(best_score, FinalScoreOf(evaluated[j]))

\* C30: create_canon_voice returns for every non-empty melody of notes with
\* positive durations, prolation >= 1, voice number in 1..3 and
\* 0 <= entry_delay <= max_delay_used: the rest loop ends within one pass
\* per eighth of the entry delay, the repetition loop ends within one
\* statement more than the statements that fit the span to fill, and both
\* leave with their exit condition met.
C30_VoiceBuilderTerminates ==
    (CalledMethod("create_canon_voice") /\ call.melody_notes # <<>>) =>
        /\ returned.kind = "value"
        /\ LET v == returned.value
               statement ==
                   SumDur(call.melody_notes)
                       * Pow(call.prolation, call.voice_number - 1)
           IN /\ v.terminates
              /\ v.remaining_delay <= 0
              /\ Len(v.rests) <= (call.entry_delay \div Eighth) + 1
              /\ statement > 0
              /\ SumDur(v.notes) >= v.remaining_duration
              /\ Len(v.notes)
                   <= Len(call.melody_notes)
                        * ((v.remaining_duration \div statement) + 1)

\* The first voice at prolation 2 under a latest entry of six eighths: the
\* melody is stated more than once.
C30_Witness ==
    /\ CalledMethod("create_canon_voice")
    /\ call.voice_number = 1
    /\ call.prolation = 2
    /\ call.entry_delay = 0
    /\ call.max_delay_used = 3 * Quarter
    /\ returned.kind = "value"
    /\ Len(returned.value.notes) > Len(call.melody_notes)

=============================================================================
